---- MODULE Spec2Model ----
(***************************************************************************)
(* Model of the blog application in main.py: the three tables (users,      *)
(* blog_posts, comments), the flask-login session of each browser, and one *)
(* action per route handler.  Every handler runs start to finish before    *)
(* the next request is taken (one synchronous worker).                     *)
(***************************************************************************)
EXTENDS Integers, Sequences, FiniteSets, TLC

VARIABLES
    users,      \* table users: sequence of rows in id order (rows are never deleted)
    posts,      \* table blog_posts: set of rows
    comments,   \* table comments: sequence of rows in id order
    session,    \* per browser: the user id flask-login keeps in the cookie, or NULL
    resp,       \* the last request served: route, browser and outcome
    submitted   \* history: per existing post, the comments logged-in users
                \* submitted on it since it was created, in order

vars == <<users, posts, comments, session, resp, submitted>>
tables == <<users, posts, comments>>

\* ------------------------------------------------------------------ bounds
MaxPosts == 2
MaxComments == 2

\* ------------------------------------------------------------------ inputs
Sessions == {"s1", "s2"}
Emails == {"admin@x", "alice@x"}
Passwords == {"pw1", "pw2"}
Names == {"N"}
Salts == {"salt1"}
Methods == {"GET", "POST"}
Titles == {"T1", "T2"}
Subtitles == {"S1", "S2"}
Bodies == {"B1", "B2"}
ImgUrls == {"U1", "U2"}
Texts == {"c1", "c2"}
PostIds == 1..MaxPosts
PostForms == [title : Titles, subtitle : Subtitles, body : Bodies, img_url : ImgUrls]
Form1 == [title |-> "T1", subtitle |-> "S1", body |-> "B1", img_url |-> "U1"]
Form2 == [title |-> "T2", subtitle |-> "S2", body |-> "B2", img_url |-> "U2"]
Date1 == [year |-> 2023, month |-> 1, day |-> 5]
Date2 == [year |-> 2024, month |-> 12, day |-> 31]
Dates == {Date1, Date2}

\* ------------------------------------------------------- values and helpers
\* A nullable column holding no value; also the anonymous user of a session.
NULL == 0
\* The id the admin_only decorator compares with.
AdminId == 1

MonthName == <<"January", "February", "March", "April", "May", "June", "July",
               "August", "September", "October", "November", "December">>

\* date.strftime("%B %d, %Y")
strftime(d) ==
    MonthName[d.month] \o " " \o (IF d.day < 10 THEN "0" ELSE "") \o ToString(d.day)
        \o ", " \o ToString(d.year)

\* werkzeug: the stored value carries the salt and the salted digest.
generate_password_hash(raw_pswd, salt) ==
    [salt |-> salt, digest |-> <<salt, raw_pswd>>]

\* a check that accepts every password
check_password_hash_any(pwhash, raw_pswd) == TRUE

check_password_hash(pwhash, raw_pswd) ==
    pwhash.digest = <<pwhash.salt, raw_pswd>>

RECURSIVE MaxOf(_)
MaxOf(S) == IF S = {} THEN 0
            ELSE LET x == CHOOSE y \in S : TRUE
                     m == MaxOf(S \ {x})
                 IN IF x > m THEN x ELSE m

\* Integer primary key without AUTOINCREMENT: the row id is one more than
\* the largest id in the table.
NextUserId == Len(users) + 1
NextPostId == MaxOf({p.id : p \in posts}) + 1
NextCommentId == Len(comments) + 1

\* users.email without its unique constraint
EmailTaken_never(email) == FALSE

\* unique=True on users.email and on blog_posts.title
EmailTaken(email) == \E i \in 1..Len(users) : users[i].email = email
TitleTaken(title, except_id) == \E p \in posts : p.title = title /\ p.id # except_id

\* User.query.filter_by(email=...).first()
UserFound(email) == \E i \in 1..Len(users) : users[i].email = email
UserByEmail(email) ==
    users[CHOOSE i \in 1..Len(users) : users[i].email = email /\
                    \A j \in 1..Len(users) : users[j].email = email => i <= j]

\* BlogPost.query.get(post_id)
PostExists(post_id) == \E p \in posts : p.id = post_id
PostById(post_id) == CHOOSE p \in posts : p.id = post_id

\* Comment.query.filter_by(post_id=post_id).all()
CommentsOf(post_id) == SelectSeq(comments, LAMBDA c : c.post_id = post_id)

\* load_user: User.query.get finds a row for the id kept in the session cookie
UserLoaded(user_id) == \E i \in 1..Len(users) : users[i].id = user_id
load_user(user_id) == users[CHOOSE i \in 1..Len(users) : users[i].id = user_id]

\* current_user of a request made with session s
is_authenticated(s) == UserLoaded(session[s])
current_user(s) == load_user(session[s])

\* a guard that forgets to compare the id
IsAdmin_anyuser(s) == is_authenticated(s)

\* admin_only lets the request through
IsAdmin(s) == is_authenticated(s) /\ current_user(s).id = AdminId

Response(op, s, status) == [op |-> op, sid |-> s, status |-> status]

\* ------------------------------------------------------------------- state
Init ==
    /\ users = << >>
    /\ posts = {}
    /\ comments = << >>
    /\ session = [s \in Sessions |-> NULL]
    /\ resp = Response("none", "none", "none")
    /\ submitted = [p \in {} |-> << >>]

\* ----------------------------------------------------------------- actions
\* /register
register(s, method, email, raw_pswd, name, salt) ==
    IF method = "POST"
    THEN IF EmailTaken(email)
         THEN \* IntegrityError caught: flash and redirect to login
              /\ resp' = Response("register", s, "redirect_login")
              /\ UNCHANGED <<users, posts, comments, session, submitted>>
         ELSE /\ users' = Append(users, [id |-> NextUserId, email |-> email,
                                         password |-> generate_password_hash(raw_pswd, salt),
                                         name |-> name])
              /\ session' = [session EXCEPT ![s] = NextUserId]
              /\ resp' = Response("register", s, "redirect_index")
              /\ UNCHANGED <<posts, comments, submitted>>
    ELSE /\ resp' = Response("register", s, "page")
         /\ UNCHANGED <<users, posts, comments, session, submitted>>

\* /login
login(s, method, email, raw_pswd) ==
    IF method = "POST"
    THEN LET user == UserByEmail(email) IN
         IF UserFound(email)
         THEN IF check_password_hash(user.password, raw_pswd)
              THEN /\ session' = [session EXCEPT ![s] = user.id]
                   /\ resp' = Response("login", s, "redirect_index")
                   /\ UNCHANGED <<users, posts, comments, submitted>>
              ELSE /\ resp' = Response("login", s, "redirect_login")
                   /\ UNCHANGED <<users, posts, comments, session, submitted>>
         ELSE /\ resp' = Response("login", s, "redirect_login")
              /\ UNCHANGED <<users, posts, comments, session, submitted>>
    ELSE /\ resp' = Response("login", s, "page")
         /\ UNCHANGED <<users, posts, comments, session, submitted>>

\* a logout that leaves the cookie in place
logout_keep(s) ==
    /\ resp' = Response("logout", s, "redirect_index")
    /\ UNCHANGED <<users, posts, comments, session, submitted>>

\* /logout
logout(s) ==
    /\ session' = [session EXCEPT ![s] = NULL]
    /\ resp' = Response("logout", s, "redirect_index")
    /\ UNCHANGED <<users, posts, comments, submitted>>

\* a comment stored without its post
NewComment_nopost(text, author_id, post_id) ==
    [id |-> NextCommentId, text |-> text, author_id |-> author_id, post_id |-> NULL]

\* Comment(text=..., author_id=..., post_id=...)
NewComment(text, author_id, post_id) ==
    [id |-> NextCommentId, text |-> text, author_id |-> author_id, post_id |-> post_id]

\* /post/<post_id>: GET renders the post and its comments, POST adds a comment
show_post(s, method, post_id, text) ==
    IF method = "POST"
    THEN IF is_authenticated(s)
         THEN /\ Len(comments) < MaxComments
              /\ comments' = Append(comments, NewComment(text, current_user(s).id, post_id))
              /\ submitted' = IF PostExists(post_id)
                              THEN [submitted EXCEPT ![post_id] =
                                       Append(@, [text |-> text, author_id |-> session[s]])]
                              ELSE submitted
              /\ resp' = Response("show_post", s, "redirect_post")
              /\ UNCHANGED <<users, posts, session>>
         ELSE /\ resp' = Response("show_post", s, "redirect_login")
              /\ UNCHANGED <<users, posts, comments, session, submitted>>
    ELSE /\ IF PostExists(post_id)
            THEN resp' = Response("show_post", s, "page")
            ELSE \* post.html is rendered with post=None: a page or a template error
                 resp' \in {Response("show_post", s, "page"), Response("show_post", s, "server_error")}
         /\ UNCHANGED <<users, posts, comments, session, submitted>>

\* what GET /post/<post_id> hands to the template
show_post_page(post_id) == [post |-> PostById(post_id), comments |-> CommentsOf(post_id)]

\* a post stored with subtitle and body exchanged
NewPost_swapped(form, author, today) ==
    [id |-> NextPostId, title |-> form.title, subtitle |-> form.body,
     body |-> form.subtitle, img_url |-> form.img_url, author_id |-> author.id,
     date |-> strftime(today)]

\* BlogPost(title=..., ..., author=current_user, date=today.strftime(...))
NewPost(form, author, today) ==
    [id |-> NextPostId, title |-> form.title, subtitle |-> form.subtitle,
     body |-> form.body, img_url |-> form.img_url, author_id |-> author.id,
     date |-> strftime(today)]

\* /new-post
add_new_post(s, method, form, valid, today) ==
    IF ~IsAdmin(s)
    THEN /\ resp' = Response("add_new_post", s, "forbidden")
         /\ UNCHANGED <<users, posts, comments, session, submitted>>
    ELSE IF method = "POST" /\ valid
         THEN IF TitleTaken(form.title, NULL)
              THEN \* IntegrityError on commit is not caught
                   /\ resp' = Response("add_new_post", s, "server_error")
                   /\ UNCHANGED <<users, posts, comments, session, submitted>>
              ELSE /\ NextPostId <= MaxPosts
                   /\ posts' = posts \cup {NewPost(form, current_user(s), today)}
                   /\ submitted' = [p \in DOMAIN submitted \cup {NextPostId} |->
                                       IF p = NextPostId THEN << >> ELSE submitted[p]]
                   /\ resp' = Response("add_new_post", s, "redirect_index")
                   /\ UNCHANGED <<users, comments, session>>
         ELSE /\ resp' = Response("add_new_post", s, "page")
              /\ UNCHANGED <<users, posts, comments, session, submitted>>

\* an edit that also clears the author shown in the form
EditedPost_author(post, form) ==
    [post EXCEPT !.title = form.title, !.subtitle = form.subtitle,
                 !.img_url = form.img_url, !.body = form.body, !.author_id = NULL]

\* the four assignments of edit_post
EditedPost(post, form) ==
    [post EXCEPT !.title = form.title, !.subtitle = form.subtitle,
                 !.img_url = form.img_url, !.body = form.body]

\* /edit-post/<post_id>
edit_post(s, method, post_id, form, valid) ==
    IF ~IsAdmin(s)
    THEN /\ resp' = Response("edit_post", s, "forbidden")
         /\ UNCHANGED <<users, posts, comments, session, submitted>>
    ELSE IF ~PostExists(post_id)
         THEN \* post is None: post.title raises AttributeError
              /\ resp' = Response("edit_post", s, "server_error")
              /\ UNCHANGED <<users, posts, comments, session, submitted>>
         ELSE IF method = "POST" /\ valid
              THEN IF TitleTaken(form.title, post_id)
                   THEN /\ resp' = Response("edit_post", s, "server_error")
                        /\ UNCHANGED <<users, posts, comments, session, submitted>>
                   ELSE /\ posts' = (posts \ {PostById(post_id)}) \cup
                                       {EditedPost(PostById(post_id), form)}
                        /\ resp' = Response("edit_post", s, "redirect_post")
                        /\ UNCHANGED <<users, comments, session, submitted>>
              ELSE /\ resp' = Response("edit_post", s, "page")
                   /\ UNCHANGED <<users, posts, comments, session, submitted>>

\* BlogPost.comments has no delete cascade: the unit of work sets the
\* post_id of the deleted post's comments to NULL.
Disassociate(cs, post_id) ==
    [i \in 1..Len(cs) |-> IF cs[i].post_id = post_id
                          THEN [cs[i] EXCEPT !.post_id = NULL]
                          ELSE cs[i]]

\* /delete/<post_id>
delete_post(s, post_id) ==
    IF ~IsAdmin(s)
    THEN /\ resp' = Response("delete_post", s, "forbidden")
         /\ UNCHANGED <<users, posts, comments, session, submitted>>
    ELSE IF ~PostExists(post_id)
         THEN \* db.session.delete(None) raises
              /\ resp' = Response("delete_post", s, "server_error")
              /\ UNCHANGED <<users, posts, comments, session, submitted>>
         ELSE /\ posts' = posts \ {PostById(post_id)}
              /\ comments' = Disassociate(comments, post_id)
              /\ submitted' = [p \in DOMAIN submitted \ {post_id} |-> submitted[p]]
              /\ resp' = Response("delete_post", s, "redirect_index")
              /\ UNCHANGED <<users, session>>

\* The requests of the browsers in Ss, with form inputs from the given sets.
NextOf(Ss, Pws, Frms, Dts, Txts, Cps) ==
    \/ \E s \in Ss, m \in Methods, e \in Emails, pw \in Pws, n \in Names, sa \in Salts :
          register(s, m, e, pw, n, sa)
    \/ \E s \in Ss, m \in Methods, e \in Emails, pw \in Pws : login(s, m, e, pw)
    \/ \E s \in Ss : logout(s)
    \/ \E s \in Ss, m \in Methods, p \in Cps, t \in Txts : show_post(s, m, p, t)
    \/ \E s \in Ss, m \in Methods, f \in Frms, v \in BOOLEAN, d \in Dts :
          add_new_post(s, m, f, v, d)
    \/ \E s \in Ss, m \in Methods, p \in PostIds, f \in Frms, v \in BOOLEAN :
          edit_post(s, m, p, f, v)
    \/ \E s \in Ss, p \in PostIds : delete_post(s, p)

Next == NextOf(Sessions, Passwords, PostForms, Dates, Texts, PostIds)

Spec == Init /\ [][Next]_vars

\* One browser and two passwords; one post form and one comment text.
SpecAuth == Init /\ [][NextOf({"s1"}, Passwords, {Form1}, {Date1}, {"c1"}, {1})]_vars

\* Two browsers and one password; one post form and one comment text.
SpecSessions == Init /\ [][NextOf(Sessions, {"pw1"}, {Form1}, {Date1}, {"c1"}, {1})]_vars

\* One browser; two post forms stamped on two dates, comments on post 1.
SpecPosts == Init /\ [][NextOf({"s1"}, {"pw1"}, {Form1, Form2}, Dates, {"c1"}, {1})]_vars

\* One browser; comments with one text on posts 1 and 2.
SpecCounts == Init /\ [][NextOf({"s1"}, {"pw1"}, {Form1, Form2}, {Date1}, {"c1"}, {1, 2})]_vars

\* One browser; comments with two texts on every post id.
SpecComments == Init /\ [][NextOf({"s1"}, {"pw1"}, {Form1, Form2}, {Date1}, Texts, PostIds)]_vars

\* ------------------------------------------------------------------ claims
\* the session is bound to a row of users
LoggedIn(s) == \E i \in 1..Len(users) : users[i].id = session[s]

\* the session is bound to the first-created account
LoggedInAsFirstUser(s) == Len(users) >= 1 /\ session[s] = users[1].id /\ users[1].id = 1

\* number of comment rows of cs whose parent post is p
Count(cs, p) == Cardinality({i \in 1..Len(cs) : cs[i].post_id = p})

PostRoutes == {"add_new_post", "edit_post", "delete_post"}

\* C1: a /new-post, /edit-post/<id> or /delete/<id> request made by a session
\* that is not logged in as the user with id 1 ends with 403 and leaves users,
\* posts and comments as they were; the posts table changes only in such a
\* request made by a session logged in as user 1.
C1_OnlyFirstUserMutatesPosts ==
    [][ /\ (resp'.op \in PostRoutes /\ ~LoggedInAsFirstUser(resp'.sid))
             => (resp'.status = "forbidden" /\ UNCHANGED tables)
        /\ (posts' # posts)
             => (resp'.op \in PostRoutes /\ LoggedInAsFirstUser(resp'.sid)) ]_vars

\* C1 witness: a logged-in user other than the first is refused the deletion
\* of an existing post.
C1_Witness ==
    /\ resp.op = "delete_post" /\ resp.status = "forbidden"
    /\ LoggedIn(resp.sid) /\ session[resp.sid] # 1
    /\ posts # {}

\* C2: registering an email that a user row already holds redirects to login
\* and leaves the users table as it was; no two user rows share an email.
C2_DuplicateEmailRejected ==
    [][ /\ resp'.op = "register" =>
             \A s \in Sessions, e \in Emails, pw \in Passwords, n \in Names, sa \in Salts :
                 (register(s, "POST", e, pw, n, sa) /\ \E i \in 1..Len(users) : users[i].email = e)
                     => (resp' = Response("register", s, "redirect_login") /\ users' = users)
        /\ \A i, j \in 1..Len(users') : users'[i].email = users'[j].email => i = j ]_vars

\* C2 witness: a registration was refused while two users were registered.
C2_Witness ==
    resp.op = "register" /\ resp.status = "redirect_login" /\ Len(users) = 2

\* pw is the password the row u was registered with
CorrectPassword(u, pw) == \E sa \in Salts : generate_password_hash(pw, sa) = u.password

\* C3: a login with a registered email and its correct password binds the
\* session to that user's id; with a wrong password it redirects back to
\* login and leaves every session as it was.
C3_LoginBindsOnlyOnCorrectPassword ==
    [][ resp'.op = "login" =>
          \A s \in Sessions, e \in Emails, pw \in Passwords :
              login(s, "POST", e, pw) =>
                  \A i \in 1..Len(users) :
                      users[i].email = e =>
                          IF CorrectPassword(users[i], pw)
                          THEN session'[s] = users[i].id /\ resp'.status = "redirect_index"
                          ELSE resp' = Response("login", s, "redirect_login")
                               /\ session' = session ]_vars

\* C3 witness: the second user has logged in, and the two users registered
\* with different passwords.
C3_Witness ==
    /\ resp.op = "login" /\ resp.status = "redirect_index"
    /\ session[resp.sid] = 2
    /\ Len(users) = 2 /\ users[1].password # users[2].password

\* C4: logout is always possible, answers with the redirect to the index and
\* leaves its session anonymous and the other sessions as they were; an
\* anonymous session becomes bound only by a successful register or login
\* made in that session.
C4_LogoutClearsSession ==
    [][ /\ \A s \in Sessions : ENABLED logout(s)
        /\ resp'.op = "logout" =>
              /\ resp'.status = "redirect_index"
              /\ session'[resp'.sid] = NULL
              /\ \A o \in Sessions \ {resp'.sid} : session'[o] = session[o]
        /\ \A s \in Sessions :
              (session[s] = NULL /\ session'[s] # NULL) =>
                  /\ resp'.sid = s
                  /\ resp'.op \in {"register", "login"}
                  /\ resp'.status = "redirect_index" ]_vars

\* C4 witness: a session has logged out while the other one stays logged in.
C4_Witness ==
    /\ resp.op = "logout" /\ session[resp.sid] = NULL
    /\ \E o \in Sessions : session[o] # NULL

\* C5: a comment posted on p by a logged-in session adds exactly one comment
\* row with parent post p and none with another parent; posted by an
\* anonymous session it redirects to login and no count changes.
C5_CommentCountsPerPost ==
    [][ resp'.op = "show_post" =>
          \A s \in Sessions, p \in PostIds, t \in Texts :
              show_post(s, "POST", p, t) =>
                  IF LoggedIn(s)
                  THEN /\ Count(comments', p) = Count(comments, p) + 1
                       /\ \A q \in PostIds \ {p} : Count(comments', q) = Count(comments, q)
                  ELSE /\ resp' = Response("show_post", s, "redirect_login")
                       /\ \A q \in PostIds : Count(comments', q) = Count(comments, q) ]_vars

\* C5 witness: a comment was just added while two posts exist and both have
\* comments.
C5_Witness ==
    /\ resp.op = "show_post" /\ resp.status = "redirect_post"
    /\ Cardinality(posts) = 2
    /\ \A q \in posts : Count(comments, q.id) >= 1

\* C6: after the administrator creates a post from a form, the page of the
\* newly assigned id shows a post with the form's title, subtitle, body and
\* image URL, the administrator as author and a non-empty date.
C6_CreateThenGetRoundTrip ==
    [][ (resp'.op = "add_new_post" /\ resp'.status = "redirect_index") =>
          \A s \in Sessions, f \in PostForms, d \in Dates :
              add_new_post(s, "POST", f, TRUE, d) =>
                  \E id \in PostIds :
                      /\ \A q \in posts : q.id # id
                      /\ \E q \in posts' : q.id = id
                      /\ LET got == (show_post_page(id).post)' IN
                            /\ got.title = f.title
                            /\ got.subtitle = f.subtitle
                            /\ got.body = f.body
                            /\ got.img_url = f.img_url
                            /\ LoggedInAsFirstUser(s)
                            /\ got.author_id = users[1].id
                            /\ Len(got.date) > 0 ]_vars

\* C6 witness: a second post has just been created.
C6_Witness ==
    resp.op = "add_new_post" /\ resp.status = "redirect_index" /\ Cardinality(posts) = 2

\* the text and author of each comment the post page lists, in page order
Listed(p) ==
    [i \in 1..Len(show_post_page(p).comments) |->
        [text |-> show_post_page(p).comments[i].text,
         author_id |-> show_post_page(p).comments[i].author_id]]

\* C7: the page of an existing post lists exactly the comments that logged-in
\* users submitted on that post since it was created, in submission order,
\* each with its text and author (none if nobody commented on it).
C7_PageListsExactlySubmitted ==
    \A p \in PostIds : PostExists(p) => Listed(p) = submitted[p]

\* C8: every comment row has the id of a user row as author and the id of a
\* post row as parent post.
C8_CommentsBelongToUserAndPost ==
    \A i \in 1..Len(comments) :
        /\ \E j \in 1..Len(users) : users[j].id = comments[i].author_id
        /\ \E q \in posts : q.id = comments[i].post_id

\* C9: a successful edit of post p changes at most the title, subtitle, image
\* URL and body of the row with id p; its id, author and date, every other
\* post, the users and the comments stay as they were.
C9_EditChangesOnlyFourFields ==
    [][ (resp'.op = "edit_post" /\ resp'.status = "redirect_post") =>
          \A s \in Sessions, p \in PostIds, f \in PostForms :
              edit_post(s, "POST", p, f, TRUE) =>
                  /\ users' = users /\ comments' = comments
                  /\ \A q \in posts : q.id # p => q \in posts'
                  /\ \A q \in posts' : q.id # p => q \in posts
                  /\ \E old \in posts, new \in posts' :
                        /\ old.id = p /\ new.id = p
                        /\ new.author_id = old.author_id
                        /\ new.date = old.date
                        /\ new.title = f.title /\ new.subtitle = f.subtitle
                        /\ new.img_url = f.img_url /\ new.body = f.body
                  /\ Cardinality(posts') = Cardinality(posts) ]_vars

\* C9 witness: a post was just edited while another post and a comment exist.
C9_Witness ==
    /\ resp.op = "edit_post" /\ resp.status = "redirect_post"
    /\ Cardinality(posts) = 2 /\ Len(comments) >= 1

\* C10: for the administrator and a post id with no row, viewing, editing and
\* deleting the post each end with not-found and leave the tables unchanged.
C10_MissingPostIsNotFound ==
    [][ resp'.op \in {"show_post", "edit_post", "delete_post"} =>
          \A s \in Sessions, p \in PostIds :
              ( /\ LoggedInAsFirstUser(s)
                /\ \A q \in posts : q.id # p
                /\ \/ \E t \in Texts : show_post(s, "GET", p, t)
                   \/ \E m \in Methods, f \in PostForms, v \in BOOLEAN : edit_post(s, m, p, f, v)
                   \/ delete_post(s, p) )
                  => (resp'.status = "not_found" /\ UNCHANGED tables) ]_vars
====
